---------------------------- MODULE Spec2Model ----------------------------
(***************************************************************************)
(* A model of workty's repository-resolution and workspace-path engine:    *)
(* src/src/git.rs (GitRepo, branch_exists, is_ancestor) and                *)
(* src/src/config.rs (Config, compute_repo_id, normalize_url,              *)
(* expand_tilde).                                                          *)
(*                                                                         *)
(* Rust strings and paths are modelled as sequences of one-character       *)
(* strings, so that trimming, suffix stripping, placeholder replacement    *)
(* and path joining are computed character by character as the code does.  *)
(* Option<T> is modelled as None or Some(v); Result<T> as Ok(v) or an Err  *)
(* record carrying the context the code attaches.                          *)
(***************************************************************************)
EXTENDS Integers, Sequences, FiniteSets, TLC

VARIABLES
    \* normalize_url applied to a string, and again to its own result
    url, normalized, prevNormalized, calls,
    \* the repository handle and the process environment (dirs::config_dir,
    \* dirs::home_dir, the filesystem, the git repository behind run_git)
    repo, config_dir, home_dir, fs, gitOk, branches,
    \* more of the git repository: what `git remote get-url origin` prints,
    \* the commit graph and the names that resolve to commits
    origin, parents, refs,
    \* for discover: the process's current directory, the existing
    \* directories, the working trees (top level |-> shared metadata
    \* directory), whether git prints the common directory relative to the
    \* directory it runs in, and whether canonicalize succeeds
    cwd, dirs, worktrees, relativeCommonDir, canonOk,
    \* one invocation: the operation run, its arguments, the Config it works
    \* on (load's local `config` before adjust_defaults, or `self`),
    \* workspace_root's local `id`, and the value returned
    op, args, config, repo_id, result,
    \* what an earlier invocation of the tool worked on and returned
    previous

urlVars == <<url, normalized, prevNormalized, calls>>
envVars == <<repo, config_dir, home_dir, fs, gitOk, branches>>
gitVars == <<origin, parents, refs>>
dirVars == <<cwd, dirs, worktrees, relativeCommonDir, canonOk>>
runVars == <<op, args, config, repo_id, result>>
vars == <<urlVars, envVars, gitVars, dirVars, runVars, previous>>

(***************************************************************************)
(* Option and Result                                                       *)
(***************************************************************************)
None == [some |-> FALSE]
Some(v) == [some |-> TRUE, val |-> v]
IsSome(o) == o.some
Ok(v) == [ok |-> TRUE, val |-> v]
IsOk(r) == r.ok

(***************************************************************************)
(* Strings as sequences of characters                                      *)
(***************************************************************************)
\* char::is_whitespace, restricted to the characters the model uses
White_Space == {" ", "\t", "\n"}

\* char::to_lowercase on the ASCII upper-case letters
UpperToLower ==
    ("A" :> "a") @@ ("B" :> "b") @@ ("C" :> "c") @@ ("D" :> "d") @@ ("E" :> "e") @@
    ("F" :> "f") @@ ("G" :> "g") @@ ("H" :> "h") @@ ("I" :> "i") @@ ("J" :> "j") @@
    ("K" :> "k") @@ ("L" :> "l") @@ ("M" :> "m") @@ ("N" :> "n") @@ ("O" :> "o") @@
    ("P" :> "p") @@ ("Q" :> "q") @@ ("R" :> "r") @@ ("S" :> "s") @@ ("T" :> "t") @@
    ("U" :> "u") @@ ("V" :> "v") @@ ("W" :> "w") @@ ("X" :> "x") @@ ("Y" :> "y") @@
    ("Z" :> "z")

Slash == <<"/">>
DotGit == <<".", "g", "i", "t">>

starts_with(s, p) == Len(s) >= Len(p) /\ SubSeq(s, 1, Len(p)) = p
ends_with(s, p) == Len(s) >= Len(p) /\ SubSeq(s, Len(s) - Len(p) + 1, Len(s)) = p

\* str::strip_prefix: the rest after the prefix, or None
strip_prefix(s, p) ==
    IF starts_with(s, p) THEN Some(SubSeq(s, Len(p) + 1, Len(s))) ELSE None

RECURSIVE trim_start(_)
trim_start(s) ==
    IF s # <<>> /\ Head(s) \in White_Space THEN trim_start(Tail(s)) ELSE s

RECURSIVE trim_end(_)
trim_end(s) ==
    IF s # <<>> /\ s[Len(s)] \in White_Space
    THEN trim_end(SubSeq(s, 1, Len(s) - 1))
    ELSE s

\* str::trim: leading and trailing whitespace removed
trim(s) == trim_end(trim_start(s))

\* str::trim_end_matches: the pattern is removed from the end repeatedly,
\* for as long as the string still ends with it
RECURSIVE trim_end_matches(_, _)
trim_end_matches(s, pat) ==
    IF pat # <<>> /\ ends_with(s, pat)
    THEN trim_end_matches(SubSeq(s, 1, Len(s) - Len(pat)), pat)
    ELSE s

\* str::to_lowercase
to_lowercase(s) ==
    [i \in 1..Len(s) |->
        IF s[i] \in DOMAIN UpperToLower THEN UpperToLower[s[i]] ELSE s[i]]

\* str::strip_suffix-like single removal, used to state "remove one trailing"
strip_one_suffix(s, pat) ==
    IF ends_with(s, pat) THEN SubSeq(s, 1, Len(s) - Len(pat)) ELSE s

RECURSIVE Repeat(_, _)
Repeat(s, n) == IF n = 0 THEN <<>> ELSE s \o Repeat(s, n - 1)

(***************************************************************************)
(* config.rs: normalize_url                                                *)
(***************************************************************************)
\* a plausible slip: each suffix removed once instead of repeatedly
normalize_url_strip_once(u) ==
    to_lowercase(strip_one_suffix(strip_one_suffix(trim(u), Slash), DotGit))

normalize_url(u) ==
    to_lowercase(trim_end_matches(trim_end_matches(trim(u), Slash), DotGit))

(***************************************************************************)
(* sha2::Sha256 (FIPS 180-4) over the UTF-8 bytes of a string, and         *)
(* hex::encode.  A 32-bit word is a pair <<high, low>> of 16-bit halves.   *)
(***************************************************************************)
\* the printable ASCII characters in code order, from 32 (space) to 126; the
\* double quote, the backslash and the backtick, which no input uses, are
\* written out by name
AsciiPrintable ==
    <<
       " ", "!", "<quote>", "#", "$", "%", "&", "'", "(", ")", "*", "+", ",", "-", ".", "/",
       "0", "1", "2", "3", "4", "5", "6", "7", "8", "9", ":", ";", "<", "=", ">", "?",
       "@", "A", "B", "C", "D", "E", "F", "G", "H", "I", "J", "K", "L", "M", "N", "O",
       "P", "Q", "R", "S", "T", "U", "V", "W", "X", "Y", "Z", "[", "<backslash>", "]", "^", "_",
       "<backtick>", "a", "b", "c", "d", "e", "f", "g", "h", "i", "j", "k", "l", "m", "n", "o",
       "p", "q", "r", "s", "t", "u", "v", "w", "x", "y", "z", "{", "|", "}", "~" >>

\* String::as_bytes, for ASCII text
ByteOf(c) ==
    IF c = "\n" THEN 10
    ELSE IF c = "\t" THEN 9
    ELSE 31 + (CHOOSE i \in 1..Len(AsciiPrintable) : AsciiPrintable[i] = c)

as_bytes(s) == [i \in 1..Len(s) |-> ByteOf(s[i])]

\* bitwise exclusive-or and bitwise and of two 4-bit numbers, tabulated:
\* row a + 1, column b + 1
XorNibble ==
    <<
       <<0, 1, 2, 3, 4, 5, 6, 7, 8, 9, 10, 11, 12, 13, 14, 15>>,
       <<1, 0, 3, 2, 5, 4, 7, 6, 9, 8, 11, 10, 13, 12, 15, 14>>,
       <<2, 3, 0, 1, 6, 7, 4, 5, 10, 11, 8, 9, 14, 15, 12, 13>>,
       <<3, 2, 1, 0, 7, 6, 5, 4, 11, 10, 9, 8, 15, 14, 13, 12>>,
       <<4, 5, 6, 7, 0, 1, 2, 3, 12, 13, 14, 15, 8, 9, 10, 11>>,
       <<5, 4, 7, 6, 1, 0, 3, 2, 13, 12, 15, 14, 9, 8, 11, 10>>,
       <<6, 7, 4, 5, 2, 3, 0, 1, 14, 15, 12, 13, 10, 11, 8, 9>>,
       <<7, 6, 5, 4, 3, 2, 1, 0, 15, 14, 13, 12, 11, 10, 9, 8>>,
       <<8, 9, 10, 11, 12, 13, 14, 15, 0, 1, 2, 3, 4, 5, 6, 7>>,
       <<9, 8, 11, 10, 13, 12, 15, 14, 1, 0, 3, 2, 5, 4, 7, 6>>,
       <<10, 11, 8, 9, 14, 15, 12, 13, 2, 3, 0, 1, 6, 7, 4, 5>>,
       <<11, 10, 9, 8, 15, 14, 13, 12, 3, 2, 1, 0, 7, 6, 5, 4>>,
       <<12, 13, 14, 15, 8, 9, 10, 11, 4, 5, 6, 7, 0, 1, 2, 3>>,
       <<13, 12, 15, 14, 9, 8, 11, 10, 5, 4, 7, 6, 1, 0, 3, 2>>,
       <<14, 15, 12, 13, 10, 11, 8, 9, 6, 7, 4, 5, 2, 3, 0, 1>>,
       <<15, 14, 13, 12, 11, 10, 9, 8, 7, 6, 5, 4, 3, 2, 1, 0>> >>

AndNibble ==
    <<
       <<0, 0, 0, 0, 0, 0, 0, 0, 0, 0, 0, 0, 0, 0, 0, 0>>,
       <<0, 1, 0, 1, 0, 1, 0, 1, 0, 1, 0, 1, 0, 1, 0, 1>>,
       <<0, 0, 2, 2, 0, 0, 2, 2, 0, 0, 2, 2, 0, 0, 2, 2>>,
       <<0, 1, 2, 3, 0, 1, 2, 3, 0, 1, 2, 3, 0, 1, 2, 3>>,
       <<0, 0, 0, 0, 4, 4, 4, 4, 0, 0, 0, 0, 4, 4, 4, 4>>,
       <<0, 1, 0, 1, 4, 5, 4, 5, 0, 1, 0, 1, 4, 5, 4, 5>>,
       <<0, 0, 2, 2, 4, 4, 6, 6, 0, 0, 2, 2, 4, 4, 6, 6>>,
       <<0, 1, 2, 3, 4, 5, 6, 7, 0, 1, 2, 3, 4, 5, 6, 7>>,
       <<0, 0, 0, 0, 0, 0, 0, 0, 8, 8, 8, 8, 8, 8, 8, 8>>,
       <<0, 1, 0, 1, 0, 1, 0, 1, 8, 9, 8, 9, 8, 9, 8, 9>>,
       <<0, 0, 2, 2, 0, 0, 2, 2, 8, 8, 10, 10, 8, 8, 10, 10>>,
       <<0, 1, 2, 3, 0, 1, 2, 3, 8, 9, 10, 11, 8, 9, 10, 11>>,
       <<0, 0, 0, 0, 4, 4, 4, 4, 8, 8, 8, 8, 12, 12, 12, 12>>,
       <<0, 1, 0, 1, 4, 5, 4, 5, 8, 9, 8, 9, 12, 13, 12, 13>>,
       <<0, 0, 2, 2, 4, 4, 6, 6, 8, 8, 10, 10, 12, 12, 14, 14>>,
       <<0, 1, 2, 3, 4, 5, 6, 7, 8, 9, 10, 11, 12, 13, 14, 15>> >>

\* a 16-bit operation, nibble by nibble
Nibbles(tbl, a, b) ==
    tbl[(a % 16) + 1][(b % 16) + 1]
    + 16 * tbl[((a \div 16) % 16) + 1][((b \div 16) % 16) + 1]
    + 256 * tbl[((a \div 256) % 16) + 1][((b \div 256) % 16) + 1]
    + 4096 * tbl[(a \div 4096) + 1][(b \div 4096) + 1]

Xor16(a, b) == Nibbles(XorNibble, a, b)
And16(a, b) == Nibbles(AndNibble, a, b)

WXor(x, y) == <<Xor16(x[1], y[1]), Xor16(x[2], y[2])>>
WAnd(x, y) == <<And16(x[1], y[1]), And16(x[2], y[2])>>
WNot(x) == <<65535 - x[1], 65535 - x[2]>>
\* addition modulo 2^32
WAdd(x, y) ==
    <<(x[1] + y[1] + ((x[2] + y[2]) \div 65536)) % 65536, (x[2] + y[2]) % 65536>>

RECURSIVE Rotr(_, _)
Rotr(x, n) ==
    IF n >= 16 THEN Rotr(<<x[2], x[1]>>, n - 16)
    ELSE IF n = 0 THEN x
    ELSE <<(x[1] \div 2^n) + (x[2] % 2^n) * 2^(16 - n),
           (x[2] \div 2^n) + (x[1] % 2^n) * 2^(16 - n)>>

Shr(x, n) ==
    IF n >= 16 THEN <<0, x[1] \div 2^(n - 16)>>
    ELSE <<x[1] \div 2^n, (x[2] \div 2^n) + (x[1] % 2^n) * 2^(16 - n)>>

Ch(x, y, z) == WXor(WAnd(x, y), WAnd(WNot(x), z))
Maj(x, y, z) == WXor(WXor(WAnd(x, y), WAnd(x, z)), WAnd(y, z))
BigSigma0(x) == WXor(WXor(Rotr(x, 2), Rotr(x, 13)), Rotr(x, 22))
BigSigma1(x) == WXor(WXor(Rotr(x, 6), Rotr(x, 11)), Rotr(x, 25))
SmallSigma0(x) == WXor(WXor(Rotr(x, 7), Rotr(x, 18)), Shr(x, 3))
SmallSigma1(x) == WXor(WXor(Rotr(x, 17), Rotr(x, 19)), Shr(x, 10))

Sha256K ==
    <<
       <<17034, 12184>>, <<28983, 17553>>, <<46528, 64463>>, <<59829, 56229>>,
       <<14678, 49755>>, <<23025, 4593>>, <<37439, 33444>>, <<43804, 24277>>,
       <<55303, 43672>>, <<4739, 23297>>, <<9265, 34238>>, <<21772, 32195>>,
       <<29374, 23924>>, <<32990, 45566>>, <<39900, 1703>>, <<49563, 61812>>,
       <<58523, 27073>>, <<61374, 18310>>, <<4033, 40390>>, <<9228, 41420>>,
       <<11753, 11375>>, <<19060, 33962>>, <<23728, 43484>>, <<30457, 35034>>,
       <<38974, 20818>>, <<43057, 50797>>, <<45059, 10184>>, <<48985, 32711>>,
       <<50912, 3059>>, <<54695, 37191>>, <<1738, 25425>>, <<5161, 10599>>,
       <<10167, 2693>>, <<11803, 8504>>, <<19756, 28156>>, <<21304, 3347>>,
       <<25866, 29524>>, <<30314, 2747>>, <<33218, 51502>>, <<37490, 11397>>,
       <<41663, 59553>>, <<43034, 26187>>, <<49739, 35696>>, <<51052, 20899>>,
       <<53650, 59417>>, <<54937, 1572>>, <<62478, 13701>>, <<4202, 41072>>,
       <<6564, 49430>>, <<7735, 27656>>, <<10056, 30540>>, <<13488, 48309>>,
       <<14620, 3251>>, <<20184, 43594>>, <<23452, 51791>>, <<26670, 28659>>,
       <<29839, 33518>>, <<30885, 25455>>, <<33992, 30740>>, <<36039, 520>>,
       <<37054, 65530>>, <<42064, 27883>>, <<48889, 41975>>, <<50801, 30962>> >>

Sha256H0 ==
    <<
       <<27145, 58983>>, <<47975, 44677>>, <<15470, 62322>>, <<42319, 62778>>,
       <<20750, 21119>>, <<39685, 26764>>, <<8067, 55723>>, <<23520, 52505>> >>

\* the message followed by 0x80, zeros up to 56 modulo 64, and the bit
\* length as a 64-bit big-endian number (messages are shorter than 8 KiB)
Sha256Pad(bytes) ==
    LET len == Len(bytes)
        zeros == (119 - (len % 64)) % 64
        bits == len * 8
    IN  bytes \o <<128>> \o [i \in 1..zeros |-> 0]
        \o <<0, 0, 0, 0, 0, 0, (bits \div 256) % 256, bits % 256>>

\* the sixteen big-endian words of the 64-byte block starting after `off`
BlockWords(bytes, off) ==
    [i \in 1..16 |->
        <<bytes[off + 4 * i - 3] * 256 + bytes[off + 4 * i - 2],
          bytes[off + 4 * i - 1] * 256 + bytes[off + 4 * i]>>]

RECURSIVE Schedule(_)
Schedule(w) ==
    IF Len(w) = 64 THEN w
    ELSE LET t == Len(w) + 1
         IN  Schedule(Append(w,
                WAdd(WAdd(SmallSigma1(w[t - 2]), w[t - 7]),
                     WAdd(SmallSigma0(w[t - 15]), w[t - 16]))))

\* rounds t..64 on the eight working variables s = <<a, b, c, d, e, f, g, h>>
RECURSIVE Rounds(_, _, _)
Rounds(s, w, t) ==
    IF t > 64 \/ Len(s) # 8 THEN s
    ELSE LET t1 == WAdd(WAdd(WAdd(s[8], BigSigma1(s[5])),
                             WAdd(Ch(s[5], s[6], s[7]), Sha256K[t])), w[t])
             t2 == WAdd(BigSigma0(s[1]), Maj(s[1], s[2], s[3]))
         IN  Rounds(<<WAdd(t1, t2), s[1], s[2], s[3],
                      WAdd(s[4], t1), s[5], s[6], s[7]>>, w, t + 1)

RECURSIVE Compress(_, _, _)
Compress(h, bytes, off) ==
    IF off >= Len(bytes) THEN h
    ELSE LET s == Rounds(h, Schedule(BlockWords(bytes, off)), 1)
         IN  Compress([i \in 1..8 |-> WAdd(h[i], s[i])], bytes, off + 64)

\* Sha256::new, update, finalize: the eight words of the digest
Sha256(bytes) == Compress(Sha256H0, Sha256Pad(bytes), 0)

HexDigits ==
    <<"0", "1", "2", "3", "4", "5", "6", "7", "8", "9", "a", "b", "c", "d", "e", "f">>

\* hex::encode of the two bytes of a 16-bit half
Hex16(n) ==
    <<HexDigits[(n \div 4096) + 1], HexDigits[((n \div 256) % 16) + 1],
      HexDigits[((n \div 16) % 16) + 1], HexDigits[(n % 16) + 1]>>

\* hex::encode(&result[..4]): the first four bytes of the digest
HexOfFirst4(digest) == Hex16(digest[1][1]) \o Hex16(digest[1][2])

(***************************************************************************)
(* Paths (std::path), as strings with "/" separators                       *)
(***************************************************************************)
is_absolute(p) == p # <<>> /\ Head(p) = "/"

\* Path::join / PathBuf::push: an absolute argument replaces the base,
\* otherwise a separator is added unless the base is empty or ends with one
join(base, p) ==
    IF is_absolute(p) THEN p
    ELSE IF base = <<>> \/ base[Len(base)] = "/" THEN base \o p
    ELSE base \o Slash \o p

\* Path::exists: false for a missing file
exists(path) == path \in DOMAIN fs /\ fs[path].kind # "absent"

\* std::fs::read_to_string: the text, or an io::Error
read_to_string(path) ==
    IF path \in DOMAIN fs /\ fs[path].kind = "text"
    THEN Ok(fs[path].text)
    ELSE [ok |-> FALSE, error |-> "io"]

(***************************************************************************)
(* git.rs: the queries of a GitRepo                                        *)
(***************************************************************************)
Str_main == <<"m", "a", "i", "n">>
Str_master == <<"m", "a", "s", "t", "e", "r">>
Str_trunk == <<"t", "r", "u", "n", "k">>
Str_develop == <<"d", "e", "v", "e", "l", "o", "p">>
Str_HEAD == <<"H", "E", "A", "D">>
Str_ref_heads ==
    <<"r", "e", "f", ":", " ", "r", "e", "f", "s", "/", "h", "e", "a", "d", "s", "/">>

\* branch_exists: `git rev-parse --verify refs/heads/<branch>` run in the
\* repository succeeded; a git that cannot be run or exits non-zero is false
branch_exists(r, branch) == gitOk /\ branch \in branches

FALLBACK_BRANCHES == <<Str_main, Str_master>>

\* a plausible slip: the literal candidates are tried before the HEAD file
default_branch_fallback_first(r) ==
    IF \E i \in 1..Len(FALLBACK_BRANCHES) : branch_exists(r, FALLBACK_BRANCHES[i])
    THEN Some(FALLBACK_BRANCHES[
            CHOOSE i \in 1..Len(FALLBACK_BRANCHES) :
                /\ branch_exists(r, FALLBACK_BRANCHES[i])
                /\ \A j \in 1..(i - 1) : ~branch_exists(r, FALLBACK_BRANCHES[j])])
    ELSE LET contents == read_to_string(join(r.common_dir, Str_HEAD))
         IN  IF IsOk(contents) /\ IsSome(strip_prefix(contents.val, Str_ref_heads))
             THEN Some(trim(strip_prefix(contents.val, Str_ref_heads).val))
             ELSE None

\* GitRepo::default_branch
default_branch(r) ==
    LET contents == read_to_string(join(r.common_dir, Str_HEAD))
        ref_name == IF IsOk(contents)
                    THEN strip_prefix(contents.val, Str_ref_heads)
                    ELSE None
    IN  IF IsSome(ref_name) THEN Some(trim(ref_name.val))
        ELSE IF \E i \in 1..Len(FALLBACK_BRANCHES) :
                    branch_exists(r, FALLBACK_BRANCHES[i])
        THEN Some(FALLBACK_BRANCHES[
                CHOOSE i \in 1..Len(FALLBACK_BRANCHES) :
                    /\ branch_exists(r, FALLBACK_BRANCHES[i])
                    /\ \A j \in 1..(i - 1) : ~branch_exists(r, FALLBACK_BRANCHES[j])])
        ELSE None

(***************************************************************************)
(* config.rs: Config, load, adjust_defaults                                *)
(***************************************************************************)
CONFIG_FILENAME == <<"w", "o", "r", "k", "t", "y", ".", "t", "o", "m", "l">>
DEFAULT_BASE == Str_main
Str_workty == <<"w", "o", "r", "k", "t", "y">>
Str_flat == <<"f", "l", "a", "t">>
Str_default_root ==
    <<"~", "/", ".", "w", "o", "r", "k", "t", "y", "/",
      "{", "r", "e", "p", "o", "}", "-", "{", "i", "d", "}">>

\* impl Default for Config
DefaultConfig ==
    [version |-> 1, base |-> DEFAULT_BASE, root |-> Str_default_root,
     layout |-> Str_flat, open_cmd |-> None]

\* A TOML document is modelled parsed: a function from the keys it sets to
\* typed values, [str |-> chars] or [int |-> n].
StrVal(v) == [str |-> v]
IntVal(n) == [int |-> n]
ValueOf(x) == IF "int" \in DOMAIN x THEN x.int ELSE x.str

ConfigKeyType ==
    [k \in {"version", "base", "root", "layout", "open_cmd"} |->
        IF k = "version" THEN "int" ELSE "str"]

\* toml::from_str::<Config> under #[serde(default)]: text that is not TOML
\* and a key of the wrong type are errors; unknown keys are ignored and a
\* missing key takes the Default value
from_str(contents) ==
    IF contents.syntax # "toml" THEN [ok |-> FALSE, error |-> "toml"]
    ELSE LET doc == contents.doc
             illTyped == \E k \in DOMAIN doc \cap DOMAIN ConfigKeyType :
                            \/ ConfigKeyType[k] \notin DOMAIN doc[k]
                            \/ (k = "version" /\ doc[k].int < 0)
             field(k) == IF k \in DOMAIN doc THEN ValueOf(doc[k]) ELSE DefaultConfig[k]
         IN  IF illTyped THEN [ok |-> FALSE, error |-> "toml"]
             ELSE Ok([version |-> field("version"), base |-> field("base"),
                      root |-> field("root"), layout |-> field("layout"),
                      open_cmd |-> IF "open_cmd" \in DOMAIN doc
                                   THEN Some(doc["open_cmd"].str) ELSE None])

config_path(r) == join(r.common_dir, CONFIG_FILENAME)

\* a plausible slip: the shared-metadata-directory file tried first
candidates_git_dir_first(r) ==
    <<config_path(r), join(r.root, CONFIG_FILENAME)>>
    \o (IF IsSome(config_dir)
        THEN <<join(join(config_dir.val, Str_workty), CONFIG_FILENAME)>>
        ELSE <<>>)
    \o (IF IsSome(home_dir)
        THEN <<join(home_dir.val, <<".">> \o CONFIG_FILENAME),
               join(home_dir.val, CONFIG_FILENAME)>>
        ELSE <<>>)

\* Config::load, lines 34-51: the candidate paths, highest priority first
candidates(r) ==
    <<join(r.root, CONFIG_FILENAME), config_path(r)>>
    \o (IF IsSome(config_dir)
        THEN <<join(join(config_dir.val, Str_workty), CONFIG_FILENAME)>>
        ELSE <<>>)
    \o (IF IsSome(home_dir)
        THEN <<join(home_dir.val, <<".">> \o CONFIG_FILENAME),
               join(home_dir.val, CONFIG_FILENAME)>>
        ELSE <<>>)

\* Iterator::find(|path| path.exists())
RECURSIVE find_exists(_)
find_exists(paths) ==
    IF paths = <<>> THEN None
    ELSE IF exists(Head(paths)) THEN Some(Head(paths))
    ELSE find_exists(Tail(paths))

\* the closure of Config::load, lines 56-61: read the file, then parse it;
\* each failure carries its context and the path
read_config(path) ==
    LET contents == read_to_string(path)
    IN  IF ~IsOk(contents)
        THEN [ok |-> FALSE, context |-> "Failed to read config from", path |-> path]
        ELSE LET parsed == from_str(contents.val)
             IN  IF ~IsOk(parsed)
                 THEN [ok |-> FALSE, context |-> "Failed to parse config from",
                       path |-> path]
                 ELSE parsed

\* a plausible slip: a file that cannot be loaded is skipped for the next one
RECURSIVE load_config_skip_broken(_)
load_config_skip_broken(paths) ==
    LET found == find_exists(paths)
    IN  IF ~IsSome(found) THEN Ok(DefaultConfig)
        ELSE IF IsOk(read_config(found.val)) THEN read_config(found.val)
        ELSE load_config_skip_broken(
                SubSeq(paths,
                       1 + (CHOOSE i \in 1..Len(paths) : paths[i] = found.val
                                /\ \A j \in 1..(i - 1) : paths[j] # found.val),
                       Len(paths)))

\* Config::load, lines 53-63: the first existing candidate is loaded, an
\* error is propagated (`?`), and no candidate gives the Default
load_config(paths) ==
    LET found == find_exists(paths)
    IN  IF IsSome(found) THEN read_config(found.val) ELSE Ok(DefaultConfig)

\* a plausible slip: any base whose branch is missing is rewritten
adjust_defaults_any_base(c, r) ==
    IF ~branch_exists(r, c.base) /\ IsSome(default_branch(r))
    THEN [c EXCEPT !.base = default_branch(r).val]
    ELSE c

\* Config::adjust_defaults
adjust_defaults(c, r) ==
    IF c.base = DEFAULT_BASE /\ ~branch_exists(r, DEFAULT_BASE)
       /\ IsSome(default_branch(r))
    THEN [c EXCEPT !.base = default_branch(r).val]
    ELSE c

(***************************************************************************)
(* git.rs: origin_url; config.rs: compute_repo_id, workspace_root,         *)
(* worktree_path, expand_tilde                                             *)
(***************************************************************************)
\* GitRepo::origin_url: the trimmed output of `git remote get-url origin`,
\* None when git cannot be run or exits non-zero (no such remote)
origin_url(r) ==
    IF gitOk /\ IsSome(origin) THEN Some(trim(origin.val)) ELSE None

\* a plausible slip: the input is hashed as it is, not normalised
compute_repo_id_unnormalized(r) ==
    LET input == IF IsSome(origin_url(r)) THEN origin_url(r).val ELSE r.common_dir
    IN  HexOfFirst4(Sha256(as_bytes(input)))

\* compute_repo_id
compute_repo_id(r) ==
    LET input == IF IsSome(origin_url(r)) THEN origin_url(r).val ELSE r.common_dir
        normalized_input == normalize_url(input)
    IN  HexOfFirst4(Sha256(as_bytes(normalized_input)))

\* the components of a path that Path::components keeps by name: empty
\* components and "." are dropped
RECURSIVE Components(_, _)
Components(p, current) ==
    IF p = <<>>
    THEN IF current \in {<<>>, <<".">>} THEN <<>> ELSE <<current>>
    ELSE IF Head(p) = "/"
    THEN (IF current \in {<<>>, <<".">>} THEN <<>> ELSE <<current>>)
         \o Components(Tail(p), <<>>)
    ELSE Components(Tail(p), Append(current, Head(p)))

\* Path::file_name: the last component, unless the path ends in ".." or
\* has no component
file_name(p) ==
    LET comps == Components(p, <<>>)
    IN  IF comps = <<>> \/ comps[Len(comps)] = <<".", ".">>
        THEN None
        ELSE Some(comps[Len(comps)])

\* str::replace: every non-overlapping match, from the left
RECURSIVE replace(_, _, _)
replace(s, from, to) ==
    IF s = <<>> THEN <<>>
    ELSE IF starts_with(s, from)
    THEN to \o replace(SubSeq(s, Len(from) + 1, Len(s)), from, to)
    ELSE <<Head(s)>> \o replace(Tail(s), from, to)

Placeholder_repo == <<"{", "r", "e", "p", "o", "}">>
Placeholder_id == <<"{", "i", "d", "}">>
Str_repo == <<"r", "e", "p", "o">>

\* expand_tilde
expand_tilde(path) ==
    IF path = <<"~">>
    THEN (IF IsSome(home_dir) THEN home_dir.val ELSE <<"~">>)
    ELSE IF IsSome(strip_prefix(path, <<"~", "/">>)) /\ IsSome(home_dir)
    THEN join(home_dir.val, strip_prefix(path, <<"~", "/">>).val)
    ELSE path

\* Config::workspace_root, lines 89-97: the template with {repo} replaced,
\* and then {id} replaced in the result of that
expanded_template(c, r, id) ==
    LET repo_name == IF IsSome(file_name(r.root)) THEN file_name(r.root).val
                     ELSE Str_repo
    IN  replace(replace(c.root, Placeholder_repo, repo_name), Placeholder_id, id)

\* Config::workspace_root with its local `id`
workspace_root_locals(c, r) ==
    LET id == compute_repo_id(r)
    IN  [id |-> id, path |-> expand_tilde(expanded_template(c, r, id))]

\* Config::workspace_root
workspace_root(c, r) == workspace_root_locals(c, r).path

\* Config::worktree_path with workspace_root's local `id`
worktree_path_locals(c, r, branch_slug) ==
    LET root == workspace_root_locals(c, r)
    IN  [id |-> root.id, path |-> join(root.path, branch_slug)]

\* Config::worktree_path
worktree_path(c, r, branch_slug) == worktree_path_locals(c, r, branch_slug).path

(***************************************************************************)
(* git.rs: is_ancestor                                                     *)
(***************************************************************************)
\* commit a is d or an ancestor of d
RECURSIVE Reachable(_, _)
Reachable(a, d) == a = d \/ \E q \in parents[d] : Reachable(a, q)

\* the exit status of `git merge-base --is-ancestor <ancestor> <descendant>`:
\* 0 for an ancestor, 1 for none, 128 when a name does not resolve
merge_base_is_ancestor(ancestor, descendant) ==
    IF ancestor \notin DOMAIN refs \/ descendant \notin DOMAIN refs THEN 128
    ELSE IF Reachable(refs[ancestor], refs[descendant]) THEN 0
    ELSE 1

\* is_ancestor: an error only when git cannot be run; otherwise whether the
\* exit status is success
is_ancestor(r, ancestor, descendant) ==
    IF ~gitOk
    THEN [ok |-> FALSE, context |-> "Failed to check ancestry"]
    ELSE Ok(merge_base_is_ancestor(ancestor, descendant) = 0)

(***************************************************************************)
(* git.rs: discover                                                        *)
(***************************************************************************)
RECURSIVE JoinComponents(_)
JoinComponents(comps) ==
    IF comps = <<>> THEN <<>> ELSE Slash \o Head(comps) \o JoinComponents(Tail(comps))

\* the components of an absolute path with each ".." resolved against the
\* component before it
RECURSIVE Resolve(_, _)
Resolve(comps, done) ==
    IF comps = <<>> THEN done
    ELSE IF Head(comps) = <<".", ".">>
    THEN Resolve(Tail(comps),
                 IF done = <<>> THEN <<>> ELSE SubSeq(done, 1, Len(done) - 1))
    ELSE Resolve(Tail(comps), Append(done, Head(comps)))

\* Path::canonicalize: the absolute path without "." and "..", an error
\* when the path does not exist or cannot be examined
canonicalize(p) ==
    LET resolved == JoinComponents(Resolve(Components(p, <<>>), <<>>))
        real == IF resolved = <<>> THEN Slash ELSE resolved
    IN  IF canonOk /\ is_absolute(p) /\ real \in dirs
        THEN Ok(real)
        ELSE [ok |-> FALSE, error |-> "io"]

\* the working tree that contains directory d, if any: [root, common_dir]
WorkTreeOf(d) ==
    IF \E w \in DOMAIN worktrees : d = w \/ starts_with(d, w \o Slash)
    THEN Some(CHOOSE w \in DOMAIN worktrees : d = w \/ starts_with(d, w \o Slash))
    ELSE None

\* the path of directory `to` as seen from directory `from` below it:
\* one ".." per level, then the rest
RelativeTo(to, from, top) ==
    LET ups == Len(Components(from, <<>>)) - Len(Components(top, <<>>))
        rest == SubSeq(to, Len(top) + 2, Len(to))
    IN  Repeat(<<".", ".", "/">>, ups) \o rest

\* git_rev_parse / run_git_command for `--show-toplevel`: the top level of
\* the working tree and a newline; an error when git cannot be run or the
\* directory is in no working tree
rev_parse_show_toplevel(working_directory) ==
    IF ~gitOk \/ ~IsSome(WorkTreeOf(working_directory))
    THEN [ok |-> FALSE, context |-> "git rev-parse failed"]
    ELSE Ok(WorkTreeOf(working_directory).val \o <<"\n">>)

\* git_rev_parse / run_git_command for `--git-common-dir`: the shared
\* metadata directory, absolute or relative to the working directory
rev_parse_git_common_dir(working_directory) ==
    IF ~gitOk \/ ~IsSome(WorkTreeOf(working_directory))
    THEN [ok |-> FALSE, context |-> "git rev-parse failed"]
    ELSE LET top == WorkTreeOf(working_directory).val
             common == worktrees[top]
         IN  IF relativeCommonDir /\ starts_with(common, top \o Slash)
             THEN Ok(RelativeTo(common, working_directory, top) \o <<"\n">>)
             ELSE Ok(common \o <<"\n">>)

\* GitRepo::discover
discover(start_path) ==
    LET working_directory == IF IsSome(start_path) THEN start_path.val ELSE cwd
        top == rev_parse_show_toplevel(working_directory)
        common == rev_parse_git_common_dir(working_directory)
    IN  IF ~IsOk(top) THEN top
        ELSE IF ~IsOk(common) THEN common
        ELSE LET root == trim(top.val)
                 common_dir_str == trim(common.val)
                 common_dir == IF is_absolute(common_dir_str)
                               THEN common_dir_str
                               ELSE join(root, common_dir_str)
             IN  Ok([root |-> IF IsOk(canonicalize(root))
                              THEN canonicalize(root).val ELSE root,
                     common_dir |-> IF IsOk(canonicalize(common_dir))
                                    THEN canonicalize(common_dir).val
                                    ELSE common_dir])

(***************************************************************************)
(* The environment of one invocation, for Config::load and                 *)
(* GitRepo::default_branch: a repository at /w/r with its metadata in      *)
(* /w/r/.git, a user whose home is /h, the five configuration files, the   *)
(* HEAD file and the local branches.                                       *)
(***************************************************************************)
Absent == [kind |-> "absent"]
\* present, but read_to_string fails (a directory, no read permission)
Unreadable == [kind |-> "unreadable"]
Text(t) == [kind |-> "text", text |-> t]
\* config file texts, as toml reads them
Garbage == Text([syntax |-> "garbage"])
Toml(doc) == Text([syntax |-> "toml", doc |-> doc])

Path_root == <<"/", "w", "/", "r">>
Path_common_dir == Path_root \o <<"/", ".", "g", "i", "t">>
Path_home == <<"/", "h">>
Path_config_dir == Path_home \o <<"/", ".", "c", "o", "n", "f", "i", "g">>

MainWorktree == [root |-> Path_root, common_dir |-> Path_common_dir]

File_root == Path_root \o Slash \o CONFIG_FILENAME
File_common_dir == Path_common_dir \o Slash \o CONFIG_FILENAME
File_config_dir == Path_config_dir \o Slash \o Str_workty \o Slash \o CONFIG_FILENAME
File_home_dot == Path_home \o <<"/", ".">> \o CONFIG_FILENAME
File_home == Path_home \o Slash \o CONFIG_FILENAME
File_HEAD == Path_common_dir \o Slash \o Str_HEAD

\* each file names itself in open_cmd, so that a loaded Config shows its source
Cmd(n) == StrVal(<<"c", n>>)

Contents_root ==
    { Absent, Unreadable, Garbage,
      Toml(<<>>),
      Toml([base |-> StrVal(Str_main), open_cmd |-> Cmd("1")]),
      Toml([base |-> StrVal(Str_develop), open_cmd |-> Cmd("1")]),
      Toml([base |-> IntVal(5), open_cmd |-> Cmd("1")]) }
Contents_common_dir ==
    { Absent, Garbage,
      Toml([open_cmd |-> Cmd("2"), layout |-> StrVal(<<"n">>), colour |-> IntVal(1)]),
      Toml([base |-> StrVal(Str_develop), open_cmd |-> Cmd("2"), version |-> IntVal(2)]) }
Contents_config_dir == { Absent, Garbage, Toml([open_cmd |-> Cmd("3")]) }
Contents_home_dot == { Absent, Unreadable, Toml([open_cmd |-> Cmd("4")]) }
Contents_home == { Absent, Toml([open_cmd |-> Cmd("5"), root |-> StrVal(<<"~">>)]) }

Head_trunk == Text(Str_ref_heads \o Str_trunk \o <<" ", "\n">>)
Head_main == Text(Str_ref_heads \o Str_main \o <<"\n">>)
Head_detached == Text(<<"9", "f", "c", "0", "\n">>)
Head_tag == Text(<<"r", "e", "f", ":", " ", "r", "e", "f", "s", "/", "t", "a", "g", "s", "/", "v", "\n">>)
Contents_HEAD == { Absent, Head_trunk, Head_main, Head_detached, Head_tag }

FileSystems ==
    { [p \in {File_root, File_common_dir, File_config_dir, File_home_dot,
              File_home, File_HEAD} |->
          CASE p = File_root -> c1
            [] p = File_common_dir -> c2
            [] p = File_config_dir -> c3
            [] p = File_home_dot -> c4
            [] p = File_home -> c5
            [] p = File_HEAD -> h] :
        c1 \in Contents_root, c2 \in Contents_common_dir,
        c3 \in Contents_config_dir, c4 \in Contents_home_dot,
        c5 \in Contents_home, h \in Contents_HEAD }

EnvIdle ==
    /\ repo = MainWorktree
    /\ config_dir = None
    /\ home_dir = None
    /\ fs = <<>>
    /\ gitOk = TRUE
    /\ branches = {}

GitIdle ==
    /\ origin = None
    /\ parents = <<>>
    /\ refs = <<>>

DirIdle ==
    /\ cwd = <<>>
    /\ dirs = {}
    /\ worktrees = <<>>
    /\ relativeCommonDir = FALSE
    /\ canonOk = TRUE

RunIdle ==
    /\ op = "none"
    /\ args = <<>>
    /\ config = None
    /\ repo_id = None
    /\ result = None
    /\ previous = None

UrlIdle ==
    /\ url = <<>>
    /\ normalized = <<>>
    /\ prevNormalized = <<>>
    /\ calls = 0

ConfigInit ==
    /\ repo = MainWorktree
    /\ config_dir \in {None, Some(Path_config_dir)}
    /\ home_dir \in {None, Some(Path_home)}
    /\ fs \in FileSystems
    /\ gitOk \in BOOLEAN
    /\ branches \in SUBSET {Str_main, Str_master}
    /\ GitIdle /\ DirIdle /\ RunIdle /\ UrlIdle

\* Config::load: the file is chosen and loaded, adjust_defaults is applied to
\* the loaded or default Config, and the Config is returned; `config` keeps
\* the value the local had before adjust_defaults
Load ==
    /\ op \in {"none", "save"}
    /\ op' = "load"
    /\ LET loaded == load_config(candidates(repo))
       IN  /\ config' = IF IsOk(loaded) THEN Some(loaded.val) ELSE None
           /\ result' = Some(IF IsOk(loaded)
                             THEN Ok(adjust_defaults(loaded.val, repo))
                             ELSE loaded)
    /\ UNCHANGED <<args, repo_id, previous, envVars, gitVars, dirVars, urlVars>>

\* GitRepo::default_branch, called on its own
DefaultBranch ==
    /\ op = "none"
    /\ op' = "default_branch"
    /\ result' = Some(default_branch(repo))
    /\ UNCHANGED <<args, config, repo_id, previous, envVars, gitVars, dirVars, urlVars>>

ConfigNext == Load \/ DefaultBranch

SpecConfig == ConfigInit /\ [][ConfigNext]_vars

(***************************************************************************)
(* C1: load takes its Config from the first existing file of the priority  *)
(* list <root>/workty.toml, <common_dir>/workty.toml,                      *)
(* <config dir>/workty/workty.toml, <home>/.workty.toml,                   *)
(* <home>/workty.toml and from no other, for every combination of existing *)
(* files; with none, from the default Config (version 1, base "main",      *)
(* root "~/.workty/{repo}-{id}", layout "flat", no open_cmd).              *)
(***************************************************************************)
PriorityList ==
    << repo.root \o <<"/">> \o CONFIG_FILENAME,
       repo.common_dir \o <<"/">> \o CONFIG_FILENAME >>
    \o (IF config_dir = None THEN <<>>
        ELSE << config_dir.val \o <<"/", "w", "o", "r", "k", "t", "y", "/">>
                \o CONFIG_FILENAME >>)
    \o (IF home_dir = None THEN <<>>
        ELSE << home_dir.val \o <<"/", ".">> \o CONFIG_FILENAME,
                home_dir.val \o <<"/">> \o CONFIG_FILENAME >>)

Present(p) == fs[p] # Absent

\* the position in the priority list of the first file that exists, or 0
FirstPresent ==
    IF \E i \in 1..Len(PriorityList) : Present(PriorityList[i])
    THEN CHOOSE i \in 1..Len(PriorityList) :
            /\ Present(PriorityList[i])
            /\ \A j \in 1..(i - 1) : ~Present(PriorityList[j])
    ELSE 0

Loadable(p) == fs[p].kind = "text" /\ IsOk(from_str(fs[p].text))

C1_FirstExistingIsLoaded ==
    op = "load" =>
        IF FirstPresent = 0
        THEN /\ IsOk(result.val)
             /\ config = Some([version |-> 1, base |-> <<"m", "a", "i", "n">>,
                               root |-> <<"~", "/", ".", "w", "o", "r", "k", "t", "y",
                                          "/", "{", "r", "e", "p", "o", "}", "-",
                                          "{", "i", "d", "}">>,
                               layout |-> <<"f", "l", "a", "t">>,
                               open_cmd |-> None])
        ELSE LET first == PriorityList[FirstPresent]
             IN  IF Loadable(first)
                 THEN /\ IsOk(result.val)
                      /\ config = Some(from_str(fs[first].text).val)
                 ELSE ~IsOk(result.val)

\* both the repository-root file and the shared-metadata-directory file
\* exist and parse, and the repository-root one was loaded
C1_Witness ==
    /\ op = "load"
    /\ Loadable(File_root) /\ Loadable(File_common_dir)
    /\ Present(File_home)
    /\ IsOk(result.val)
    /\ config.val.open_cmd = Some(<<"c", "1">>)

(***************************************************************************)
(* C2: load returns the loaded Config with adjust_defaults applied: base   *)
(* becomes default_branch()'s value when base is "main", no local branch   *)
(* main exists and default_branch() returns a value ("trunk" when HEAD is  *)
(* a symbolic ref to refs/heads/trunk); in every other case base is        *)
(* unchanged ("develop" stays "develop"); no other field changes.          *)
(***************************************************************************)
MainExists == gitOk /\ <<"m", "a", "i", "n">> \in branches

C2_AdjustDefaults ==
    (op = "load" /\ IsOk(result.val)) =>
        LET before == config.val
            after == result.val.val
        IN  /\ after.version = before.version
            /\ after.root = before.root
            /\ after.layout = before.layout
            /\ after.open_cmd = before.open_cmd
            /\ IF before.base = <<"m", "a", "i", "n">> /\ ~MainExists
                  /\ default_branch(repo) # None
               THEN after.base = default_branch(repo).val
               ELSE after.base = before.base
            /\ (before.base = <<"m", "a", "i", "n">> /\ ~MainExists
                /\ fs[File_HEAD] = Head_trunk)
                    => after.base = <<"t", "r", "u", "n", "k">>
            /\ (before.base = <<"m", "a", "i", "n">> /\ default_branch(repo) = None)
                    => after.base = <<"m", "a", "i", "n">>
            /\ before.base = <<"d", "e", "v", "e", "l", "o", "p">>
                    => after.base = <<"d", "e", "v", "e", "l", "o", "p">>

\* the default base was rewritten to the branch HEAD names
C2_Witness ==
    /\ op = "load"
    /\ IsOk(result.val)
    /\ config.val.base = <<"m", "a", "i", "n">>
    /\ ~MainExists
    /\ fs[File_HEAD] = Head_trunk
    /\ result.val.val.base = <<"t", "r", "u", "n", "k">>

(***************************************************************************)
(* C3: default_branch returns the name after "ref: refs/heads/" in the     *)
(* HEAD file of common_dir (whitespace trimmed) whenever that file is      *)
(* readable and starts so, whatever branches exist; otherwise "main" if    *)
(* that local branch exists, else "master" if that one exists; otherwise   *)
(* None.  An unreadable HEAD or a failing branch query only moves it on.   *)
(***************************************************************************)
HeadName ==
    LET h == fs[repo.common_dir \o <<"/", "H", "E", "A", "D">>]
    IN  IF h.kind = "text" /\ starts_with(h.text, Str_ref_heads)
        THEN Some(trim(SubSeq(h.text, Len(Str_ref_heads) + 1, Len(h.text))))
        ELSE None

C3_ThreeTiers ==
    op = "default_branch" =>
        /\ HeadName # None => result.val = HeadName
        /\ (HeadName = None /\ gitOk /\ Str_main \in branches)
                => result.val = Some(Str_main)
        /\ (HeadName = None /\ gitOk /\ Str_main \notin branches
            /\ Str_master \in branches)
                => result.val = Some(Str_master)
        /\ (HeadName = None /\ (~gitOk \/ branches = {})) => result.val = None
        /\ fs[File_HEAD] = Head_trunk => result.val = Some(<<"t", "r", "u", "n", "k">>)

\* HEAD names trunk while main and master both exist: the HEAD tier wins
C3_Witness ==
    /\ op = "default_branch"
    /\ fs[File_HEAD] = Head_trunk
    /\ gitOk /\ branches = {Str_main, Str_master}
    /\ result.val = Some(Str_trunk)

(***************************************************************************)
(* C5: when the first existing candidate cannot be read or does not parse, *)
(* load returns an error naming that file; it neither goes on to a lower   *)
(* candidate nor falls back to the default Config.                         *)
(***************************************************************************)
C5_BrokenFileIsAnError ==
    (op = "load" /\ FirstPresent # 0 /\ ~Loadable(PriorityList[FirstPresent])) =>
        /\ ~IsOk(result.val)
        /\ result.val.path = PriorityList[FirstPresent]
        /\ result.val.context =
              IF fs[PriorityList[FirstPresent]].kind = "text"
              THEN "Failed to parse config from"
              ELSE "Failed to read config from"
        /\ config = None

\* the repository-root file is malformed while a well-formed lower file exists
C5_Witness ==
    /\ op = "load"
    /\ fs[File_root] = Garbage
    /\ Loadable(File_common_dir)
    /\ ~IsOk(result.val)
    /\ result.val.path = File_root

(***************************************************************************)
(* Normalisation inputs: strings assembled from a few pieces, and the two  *)
(* URLs of test_normalize_url                                              *)
(***************************************************************************)
MaxPieces == 4
MaxNormalizeCalls == 2

UrlPieces ==
    { <<"a">>, <<"R">>, Slash, <<" ">>, DotGit, <<".", "G", "I", "T">> }

RECURSIVE PieceSeqs(_)
PieceSeqs(n) ==
    IF n = 0 THEN { <<>> }
    ELSE LET shorter == PieceSeqs(n - 1)
         IN  shorter \cup { s \o p : s \in shorter, p \in UrlPieces }

HttpsUrl ==
    << "h","t","t","p","s",":","/","/","g","i","t","h","u","b",".","c","o","m",
       "/","u","s","e","r","/","r","e","p","o" >>
SshUrl ==
    << "g","i","t","@","g","i","t","h","u","b",".","c","o","m",":",
       "u","s","e","r","/","r","e","p","o" >>

UrlInputs ==
    PieceSeqs(MaxPieces) \cup { HttpsUrl \o DotGit, SshUrl \o DotGit \o Slash }

UrlStart ==
    /\ url \in UrlInputs
    /\ normalized = url
    /\ prevNormalized = url
    /\ calls = 0

UrlInit == UrlStart /\ EnvIdle /\ GitIdle /\ DirIdle /\ RunIdle

\* normalize_url is applied to the string, then to its own result
NormalizeUrl ==
    /\ calls < MaxNormalizeCalls
    /\ normalized' = normalize_url(normalized)
    /\ prevNormalized' = normalized
    /\ calls' = calls + 1
    /\ UNCHANGED <<url, envVars, gitVars, dirVars, runVars, previous>>

UrlNext == NormalizeUrl

SpecUrl == UrlInit /\ [][UrlNext]_vars

(***************************************************************************)
(* C6: normalisation is idempotent: normalising a normalised string gives  *)
(* the same string back.                                                   *)
(***************************************************************************)
C6_Idempotent == calls = 2 => normalized = prevNormalized

(***************************************************************************)
(* C7 as stated: the result is trim, then one trailing "/" removed, then   *)
(* one trailing ".git" removed, then lower-casing.                         *)
(***************************************************************************)
C7_OneSlashOneSuffix ==
    calls = 1 =>
        normalized =
            to_lowercase(strip_one_suffix(strip_one_suffix(trim(url), Slash), DotGit))

(***************************************************************************)
(* C7 as amended: the trimmed input is core . ".git"^k . "/"^j with every  *)
(* trailing "/" in the last part and every trailing ".git" before it in    *)
(* the middle part (so core does not end with ".git", and core . ".git"^k  *)
(* does not end with "/"); the result is core in lower case.  The two      *)
(* URLs of the unit test give the results the test expects.                *)
(***************************************************************************)
IsCoreOf(core, t) ==
    \E k \in 0..Len(t), j \in 0..Len(t) :
        /\ t = core \o Repeat(DotGit, k) \o Repeat(Slash, j)
        /\ ~ends_with(core \o Repeat(DotGit, k), Slash)
        /\ ~ends_with(core, DotGit)

C7_AllSlashesAllSuffixes ==
    calls = 1 =>
        /\ \E n \in 0..Len(trim(url)) :
              /\ IsCoreOf(SubSeq(trim(url), 1, n), trim(url))
              /\ normalized = to_lowercase(SubSeq(trim(url), 1, n))
        /\ (url = HttpsUrl \o DotGit => normalized = HttpsUrl)
        /\ (url = SshUrl \o DotGit \o Slash => normalized = SshUrl)

\* a repeated suffix behind a trailing slash has been removed whole
C7_Witness ==
    /\ calls = 1
    /\ url = <<"R">> \o DotGit \o DotGit \o Slash
    /\ normalized = <<"r">>

(***************************************************************************)
(* The environment of is_ancestor: a commit graph in which commit c's      *)
(* parents are older commits, two branch names that resolve to commits,    *)
(* and a name that resolves to nothing.                                    *)
(***************************************************************************)
MaxCommits == 3

CommitGraphs ==
    { g \in [1..MaxCommits -> SUBSET (1..MaxCommits)] :
        \A c \in 1..MaxCommits : g[c] \subseteq 1..(c - 1) }

RefNames == {Str_main, Str_trunk}
\* a name no ref of the repository has
UnknownRef == Str_develop

AncestryInit ==
    /\ DirIdle /\ UrlIdle
    /\ repo = MainWorktree
    /\ config_dir = None
    /\ home_dir = None
    /\ fs = <<>>
    /\ branches = {}
    /\ origin = None
    /\ gitOk \in BOOLEAN
    /\ parents \in CommitGraphs
    /\ refs \in [RefNames -> 1..MaxCommits]
    /\ op = "none"
    /\ args \in [ancestor : RefNames \cup {UnknownRef},
                 descendant : RefNames \cup {UnknownRef}]
    /\ config = None
    /\ repo_id = None
    /\ result = None
    /\ previous = None

IsAncestor ==
    /\ op = "none"
    /\ op' = "is_ancestor"
    /\ result' = Some(is_ancestor(repo, args.ancestor, args.descendant))
    /\ UNCHANGED <<args, config, repo_id, previous, envVars, gitVars, dirVars, urlVars>>

AncestryNext == IsAncestor

SpecAncestry == AncestryInit /\ [][AncestryNext]_vars

(***************************************************************************)
(* C4: is_ancestor returns Ok(true) exactly when the first ref is          *)
(* reachable from the second, Ok(false) exactly when both refs are valid   *)
(* and it is not, and an error whenever the ancestry query fails, as for   *)
(* an unknown ref; a failed query is never reported as Ok(false).          *)
(***************************************************************************)
BothRefsValid == args.ancestor \in DOMAIN refs /\ args.descendant \in DOMAIN refs

IsReachable ==
    \E path \in UNION { [1..n -> 1..MaxCommits] : n \in 1..MaxCommits } :
        /\ path[1] = refs[args.descendant]
        /\ path[Len(path)] = refs[args.ancestor]
        /\ \A i \in 1..(Len(path) - 1) : path[i + 1] \in parents[path[i]]

C4_ThreeOutcomes ==
    op = "is_ancestor" =>
        /\ result.val = Ok(TRUE) <=> (gitOk /\ BothRefsValid /\ IsReachable)
        /\ result.val = Ok(FALSE) <=> (gitOk /\ BothRefsValid /\ ~IsReachable)
        /\ (~gitOk \/ ~BothRefsValid) => ~IsOk(result.val)

(***************************************************************************)
(* The environment of the Repository Identifier: three handles (a clone,   *)
(* a clone elsewhere under another directory name, and a linked worktree   *)
(* of the first clone) and what `git remote get-url origin` prints.  The   *)
(* tool is run, and then run again, possibly in another clone.             *)
(***************************************************************************)
OtherClone ==
    [root |-> <<"/", "x", "/", "P", "r", "o", "j">>,
     common_dir |-> <<"/", "x", "/", "P", "r", "o", "j", "/", ".", "g", "i", "t">>]
LinkedWorktree == [root |-> <<"/", "w", "/", "t">>, common_dir |-> Path_common_dir]

Origin_https_git == Some(HttpsUrl \o DotGit \o <<"\n">>)
Origin_https_slash == Some(HttpsUrl \o Slash \o <<"\n">>)
Origin_https_upper ==
    Some(<<"H", "T", "T", "P", "S">> \o SubSeq(HttpsUrl, 6, Len(HttpsUrl)) \o <<"\n">>)
Origin_ssh == Some(SshUrl \o DotGit \o <<"\n">>)

Str_test_branch == <<"t", "e", "s", "t", "-", "b", "r", "a", "n", "c", "h">>

IdEnvironments ==
    [repo : {MainWorktree, OtherClone, LinkedWorktree},
     origin : {None, Origin_https_git, Origin_https_slash, Origin_https_upper,
               Origin_ssh},
     gitOk : {TRUE}]
    \cup [repo : {MainWorktree, OtherClone}, origin : {Origin_https_git},
          gitOk : {FALSE}]

IdInit ==
    /\ UrlIdle /\ DirIdle
    /\ \E e \in IdEnvironments :
          repo = e.repo /\ origin = e.origin /\ gitOk = e.gitOk
    /\ config_dir = None
    /\ home_dir = Some(Path_home)
    /\ fs = <<>>
    /\ branches = {}
    /\ parents = <<>>
    /\ refs = <<>>
    /\ op = "none"
    /\ args = [branch_slug |-> Str_test_branch]
    /\ config = Some(DefaultConfig)
    /\ repo_id = None
    /\ result = None
    /\ previous = None

\* Config::worktree_path, as `new` and `go` call it
WorktreePath ==
    /\ op = "none"
    /\ op' = "worktree_path"
    /\ LET locals == worktree_path_locals(config.val, repo, args.branch_slug)
       IN  /\ repo_id' = Some(locals.id)
           /\ result' = Some(locals.path)
    /\ UNCHANGED <<args, config, previous, envVars, gitVars, dirVars, urlVars>>

\* the process has ended; the tool is run once more, in any of the clones
RunAgain ==
    /\ op = "worktree_path"
    /\ previous = None
    /\ previous' = Some([repo |-> repo, origin |-> origin, gitOk |-> gitOk,
                         repo_id |-> repo_id.val, path |-> result.val])
    /\ \E e \in IdEnvironments :
          repo' = e.repo /\ origin' = e.origin /\ gitOk' = e.gitOk
    /\ op' = "none"
    /\ repo_id' = None
    /\ result' = None
    /\ UNCHANGED <<args, config, config_dir, home_dir, fs, branches, parents,
                   refs, dirVars, urlVars>>

IdNext == WorktreePath \/ RunAgain

SpecId == IdInit /\ [][IdNext]_vars

(***************************************************************************)
(* C8: the Repository Identifier is 8 hex characters and a function of the *)
(* normalized origin URL alone when origin_url() returns a value: two runs *)
(* whose origin URLs normalize to the same string get the same identifier  *)
(* whatever their root, common_dir and directory name; without an origin   *)
(* URL it is derived from the common_dir path.  Two runs on the same       *)
(* handle and remote give the same worktree path.  The identifiers are     *)
(* those of SHA-256: of "https://github.com/user/repo" for the URLs that   *)
(* normalize to it, and of the normalized common_dir paths "/w/r/" and     *)
(* "/x/proj/" for the clones without a remote.                             *)
(***************************************************************************)
OriginSeen(g, o) == IF g /\ o # None THEN Some(normalize_url(o.val)) ELSE None

C8_IdFromNormalizedOrigin ==
    (op = "worktree_path" /\ previous # None) =>
        LET a == previous.val
            urlA == OriginSeen(a.gitOk, a.origin)
            urlB == OriginSeen(gitOk, origin)
        IN  /\ Len(repo_id.val) = 8
            /\ \A i \in 1..8 : \E d \in 1..16 : repo_id.val[i] = HexDigits[d]
            /\ (urlA # None /\ urlA = urlB) => a.repo_id = repo_id.val
            /\ (urlA = None /\ urlB = None /\ a.repo.common_dir = repo.common_dir)
                    => a.repo_id = repo_id.val
            /\ (a.repo = repo /\ a.origin = origin /\ a.gitOk = gitOk)
                    => a.path = result.val
            /\ urlB = Some(HttpsUrl) => repo_id.val = <<"b", "7", "1", "9", "f", "b", "a", "9">>
            /\ (urlB = None /\ repo.common_dir = Path_common_dir)
                    => repo_id.val = <<"0", "e", "9", "2", "a", "3", "a", "e">>
            /\ (urlB = None /\ repo = OtherClone) => repo_id.val = <<"c", "e", "6", "f", "b", "5", "4", "7">>

\* two clones in different directories whose origin URLs differ as text but
\* normalize to the same string have the same identifier
C8_Witness ==
    /\ op = "worktree_path"
    /\ previous # None
    /\ previous.val.repo = MainWorktree /\ repo = OtherClone
    /\ previous.val.origin = Origin_https_git /\ origin = Origin_https_upper
    /\ previous.val.gitOk /\ gitOk
    /\ previous.val.repo_id = repo_id.val

(***************************************************************************)
(* The environment of workspace_root: repository roots with ordinary and   *)
(* unusual directory names, root templates with the placeholders zero,     *)
(* one and several times and with tilde prefixes, with and without a home  *)
(* directory and an origin remote.                                         *)
(***************************************************************************)
RootPaths ==
    { <<"/", "w", "/", "m", "y", "p", "r", "o", "j">>,
      <<"/">>,
      <<"/", "w", "/", ".", ".">>,
      <<"/", "w", "/", "{", "i", "d", "}">>,
      <<"/", "w", "/", "a", "{", "i", "d", "}", "b">>,
      <<"/", "w", "/", "d", "}">> }

RootTemplates ==
    { Str_default_root,
      <<"~">>,
      <<"~", "/">> \o Placeholder_id,
      <<"~", "x", "/">> \o Placeholder_repo,
      <<"/", "a", "b", "s", "/">> \o Placeholder_repo,
      <<"r", "e", "l", "/">> \o Placeholder_id \o Slash \o Placeholder_repo
        \o Placeholder_repo,
      Placeholder_id \o Placeholder_id,
      <<"/", "t", "/", "{", "i">> \o Placeholder_repo,
      <<"/", "p", "l", "a", "i", "n">> }

RootInit ==
    /\ UrlIdle /\ DirIdle
    /\ \E r \in RootPaths : repo = [root |-> r, common_dir |-> join(r, DotGit)]
    /\ origin \in {None, Origin_https_git}
    /\ gitOk = TRUE
    /\ config_dir = None
    /\ home_dir \in {None, Some(Path_home)}
    /\ fs = <<>>
    /\ branches = {}
    /\ parents = <<>>
    /\ refs = <<>>
    /\ op = "none"
    /\ args = <<>>
    /\ \E t \in RootTemplates : config = Some([DefaultConfig EXCEPT !.root = t])
    /\ repo_id = None
    /\ result = None
    /\ previous = None

\* Config::workspace_root
WorkspaceRoot ==
    /\ op = "none"
    /\ op' = "workspace_root"
    /\ LET locals == workspace_root_locals(config.val, repo)
       IN  /\ repo_id' = Some(locals.id)
           /\ result' = Some(locals.path)
    /\ UNCHANGED <<args, config, previous, envVars, gitVars, dirVars, urlVars>>

RootNext == WorkspaceRoot

SpecRoot == RootInit /\ [][RootNext]_vars

(***************************************************************************)
(* C9: workspace_root returns the template with every {repo} in it         *)
(* replaced by the last segment of repo.root (or "repo") and every {id}    *)
(* in it by the Repository Identifier, the inserted name verbatim, then    *)
(* tilde-expanded: "~" is the home directory, "~/rest" is home joined      *)
(* with rest, anything else (or any string without a home directory) is    *)
(* unchanged.                                                              *)
(***************************************************************************)
\* both placeholders of the template replaced in one pass over the template
RECURSIVE Substituted(_, _, _)
Substituted(template, name, id) ==
    IF template = <<>> THEN <<>>
    ELSE IF starts_with(template, Placeholder_repo)
    THEN name \o Substituted(SubSeq(template, 7, Len(template)), name, id)
    ELSE IF starts_with(template, Placeholder_id)
    THEN id \o Substituted(SubSeq(template, 5, Len(template)), name, id)
    ELSE <<Head(template)>> \o Substituted(Tail(template), name, id)

TildeExpanded(s) ==
    IF home_dir = None THEN s
    ELSE IF s = <<"~">> THEN home_dir.val
    ELSE IF starts_with(s, <<"~", "/">>)
    THEN join(home_dir.val, SubSeq(s, 3, Len(s)))
    ELSE s

RepoName == IF file_name(repo.root) = None THEN Str_repo ELSE file_name(repo.root).val

C9_TemplateThenTilde ==
    op = "workspace_root" =>
        result.val = TildeExpanded(Substituted(config.val.root, RepoName, repo_id.val))

(***************************************************************************)
(* The environment of GitRepo::discover: the main working tree /w/r with   *)
(* its metadata in /w/r/.git and two levels of subdirectories, a linked    *)
(* working tree /w/t of the same repository, a directory /o in no          *)
(* repository, and possibly a directory /w/.git beside the repository.     *)
(* git prints the common directory as an absolute path or relative to the  *)
(* directory it runs in.                                                   *)
(***************************************************************************)
Dir_sub == Path_root \o <<"/", "s", "u", "b">>
Dir_deep == Dir_sub \o <<"/", "d", "e", "e", "p">>
Dir_linked == <<"/", "w", "/", "t">>
Dir_outside == <<"/", "o">>
Dir_beside == <<"/", "w", "/", ".", "g", "i", "t">>

StartDirs == {Path_root, Dir_sub, Dir_deep, Dir_linked, Dir_outside}

BaseDirs ==
    {Slash, <<"/", "w">>, Path_root, Path_common_dir, Dir_sub, Dir_deep,
     Dir_linked, Dir_outside}

DiscoverInit ==
    /\ UrlIdle /\ GitIdle
    /\ repo = MainWorktree
    /\ config_dir = None
    /\ home_dir = None
    /\ fs = <<>>
    /\ branches = {}
    /\ gitOk \in BOOLEAN
    /\ cwd \in StartDirs
    /\ dirs \in {BaseDirs, BaseDirs \cup {Dir_beside}}
    /\ worktrees = (Path_root :> Path_common_dir) @@ (Dir_linked :> Path_common_dir)
    /\ relativeCommonDir \in BOOLEAN
    /\ canonOk \in BOOLEAN
    /\ op = "none"
    /\ args \in [start_path : {None} \cup {Some(d) : d \in StartDirs}]
    /\ config = None
    /\ repo_id = None
    /\ result = None
    /\ previous = None

\* GitRepo::discover
Discover ==
    /\ op = "none"
    /\ op' = "discover"
    /\ result' = Some(discover(args.start_path))
    /\ UNCHANGED <<args, config, repo_id, previous, envVars, gitVars, dirVars, urlVars>>

DiscoverNext == Discover

SpecDiscover == DiscoverInit /\ [][DiscoverNext]_vars

(***************************************************************************)
(* C10: from every start directory inside one working tree, the root or    *)
(* any subdirectory, a successful discover yields that working tree's      *)
(* root and the absolute path of the repository's shared metadata          *)
(* directory, whether git prints the common directory absolute or          *)
(* relative to the directory it ran in; discover fails only when a         *)
(* rev-parse query fails, and a failed canonicalization keeps the          *)
(* uncanonicalized path.                                                   *)
(***************************************************************************)
StartDirectory == IF IsSome(args.start_path) THEN args.start_path.val ELSE cwd

C10_SameFactsFromEveryStart ==
    op = "discover" =>
        LET inside == \E w \in DOMAIN worktrees :
                          StartDirectory = w \/ starts_with(StartDirectory, w \o Slash)
        IN  /\ IsOk(result.val) <=> (gitOk /\ inside)
            /\ IsOk(result.val) =>
                   \E w \in DOMAIN worktrees :
                       /\ StartDirectory = w \/ starts_with(StartDirectory, w \o Slash)
                       /\ result.val.val = [root |-> w, common_dir |-> worktrees[w]]

(***************************************************************************)
(* config.rs: save                                                         *)
(***************************************************************************)
\* a plausible slip: an absent open_cmd written as the empty string
to_string_pretty_none_as_empty(c) ==
    Ok([syntax |-> "toml",
        doc |-> [version |-> IntVal(c.version), base |-> StrVal(c.base),
                 root |-> StrVal(c.root), layout |-> StrVal(c.layout),
                 open_cmd |-> StrVal(IF IsSome(c.open_cmd) THEN c.open_cmd.val
                                     ELSE <<>>)]])

\* toml::to_string_pretty::<Config>: one key per field in declaration
\* order, version as an integer and the others as strings; a field that is
\* None is left out of the document
to_string_pretty(c) ==
    Ok([syntax |-> "toml",
        doc |-> IF IsSome(c.open_cmd)
                THEN [version |-> IntVal(c.version), base |-> StrVal(c.base),
                      root |-> StrVal(c.root), layout |-> StrVal(c.layout),
                      open_cmd |-> StrVal(c.open_cmd.val)]
                ELSE [version |-> IntVal(c.version), base |-> StrVal(c.base),
                      root |-> StrVal(c.root), layout |-> StrVal(c.layout)]])

\* std::fs::write: an io::Error when the path is a directory or cannot be
\* opened for writing, otherwise the file is created or replaced
write(path, contents) ==
    IF path \notin DOMAIN fs \/ fs[path] = Unreadable
    THEN [ok |-> FALSE, error |-> "io"]
    ELSE Ok([fs EXCEPT ![path] = Text(contents)])

\* Config::save: the result, and the file system it leaves
save(c, r) ==
    LET path == config_path(r)
        contents == to_string_pretty(c)
    IN  IF ~IsOk(contents)
        THEN [ok |-> FALSE, context |-> "Failed to serialize config", fs |-> fs]
        ELSE IF ~IsOk(write(path, contents.val))
        THEN [ok |-> FALSE, context |-> "Failed to write config to",
              path |-> path, fs |-> fs]
        ELSE [ok |-> TRUE, fs |-> write(path, contents.val).val]

(***************************************************************************)
(* The environment of save followed by load: the Config to save, the       *)
(* files already at the candidate paths (a file in the working tree root   *)
(* or not, the shared-metadata-directory file absent, not writable,        *)
(* malformed or holding an older Config), HEAD and the local branches.     *)
(***************************************************************************)
MaxVersion == 2

Str_code == <<"c", "o", "d", "e">>

SavedConfigs ==
    [version : 0..MaxVersion,
     base : {Str_main, Str_develop, <<>>},
     root : {Str_default_root, <<"~">>},
     layout : {Str_flat, <<"n">>},
     open_cmd : {None, Some(Str_code), Some(<<>>)}]

SaveFileSystems ==
    { [p \in {File_root, File_common_dir, File_config_dir, File_home_dot,
              File_home, File_HEAD} |->
          CASE p = File_root -> c1
            [] p = File_common_dir -> c2
            [] p = File_config_dir -> c3
            [] p = File_home_dot -> Absent
            [] p = File_home -> Absent
            [] p = File_HEAD -> h] :
        c1 \in {Absent, Toml([base |-> StrVal(Str_trunk), open_cmd |-> Cmd("1")])},
        c2 \in {Absent, Unreadable, Garbage,
                Toml([base |-> StrVal(Str_master), open_cmd |-> Cmd("2")])},
        c3 \in Contents_config_dir,
        h \in Contents_HEAD }

SaveInit ==
    /\ UrlIdle /\ GitIdle /\ DirIdle
    /\ repo = MainWorktree
    /\ config_dir = Some(Path_config_dir)
    /\ home_dir = Some(Path_home)
    /\ fs \in SaveFileSystems
    /\ gitOk \in BOOLEAN
    /\ branches \in SUBSET {Str_main, Str_master}
    /\ op = "none"
    /\ args \in [c : SavedConfigs]
    /\ config = None
    /\ repo_id = None
    /\ result = None
    /\ previous = None

\* Config::save; `previous` keeps the file system before the call and the
\* result of the call
Save ==
    /\ op = "none"
    /\ op' = "save"
    /\ LET saved == save(args.c, repo)
       IN  /\ fs' = saved.fs
           /\ result' = Some([ok |-> saved.ok])
           /\ previous' = Some([fs |-> fs, ok |-> saved.ok])
    /\ UNCHANGED <<args, config, repo_id, repo, config_dir, home_dir, gitOk,
                   branches, gitVars, dirVars, urlVars>>

SaveNext == Save \/ Load

SpecSave == SaveInit /\ [][SaveNext]_vars

(***************************************************************************)
(* C11: a successful save(repo, c) writes only the workty.toml of          *)
(* repo.common_dir, creating or overwriting it; when the working tree      *)
(* root has no workty.toml, the next load(repo) returns a Config with the  *)
(* version, root, layout and open_cmd of c and the base of c, except that  *)
(* base is default_branch() when c.base is "main", no local branch main    *)
(* exists and default_branch() returns a value.  Serializing a Config and  *)
(* parsing the result reproduces every field.                              *)
(***************************************************************************)
Saved == previous # None /\ previous.val.ok

ExpectedAfterLoad ==
    LET c == args.c
    IN  IF c.base = Str_main /\ ~MainExists /\ IsSome(default_branch(repo))
        THEN [version |-> c.version, base |-> default_branch(repo).val,
              root |-> c.root, layout |-> c.layout, open_cmd |-> c.open_cmd]
        ELSE c

C11_SaveLoadRoundTrip ==
    /\ (op = "save" /\ Saved) =>
          /\ \A p \in DOMAIN fs : p # File_common_dir => fs[p] = previous.val.fs[p]
          /\ fs[File_common_dir].kind = "text"
          /\ from_str(fs[File_common_dir].text) = Ok(args.c)
    /\ (op = "load" /\ Saved /\ fs[File_root] = Absent) =>
          /\ IsOk(result.val)
          /\ result.val.val = ExpectedAfterLoad

\* a Config without open_cmd and with the default base was saved over a
\* malformed file and loaded again in a repository whose only branch is
\* master
C11_Witness ==
    /\ op = "load"
    /\ Saved
    /\ fs[File_root] = Absent
    /\ previous.val.fs[File_common_dir] = Garbage
    /\ args.c.base = Str_main /\ args.c.open_cmd = None /\ args.c.version = 2
    /\ args.c.layout = <<"n">>
    /\ branches = {Str_master} /\ fs[File_HEAD] = Head_detached
    /\ result.val.val = [version |-> 2, base |-> Str_master, root |-> args.c.root,
                         layout |-> <<"n">>, open_cmd |-> None]

=============================================================================
